---- MODULE Spec2Model ----
(***************************************************************************)
(* A state-machine model of ProtonDocsServer (src/src/index.ts): one       *)
(* server instance owning the fields browser and page, the call handler,   *)
(* ensureBrowser, and the fifteen tool pipelines.  A tool invocation is a  *)
(* run; its position pc is the source line of the await it is suspended    *)
(* at ("L677" is the await of line 677).  Every call a run issues on the    *)
(* page, a frame, an element handle or the keyboard is appended to the     *)
(* run's log together with its outcome.                                    *)
(***************************************************************************)
EXTENDS Integers, Sequences, FiniteSets, TLC

(* ------------------------------ bounds -------------------------------- *)

\* Tool invocations started in one behaviour.
MaxCalls == 3
\* Tool invocations started in one behaviour of the overlapping specification.
MaxOverlap == 2
\* Longest link text (insert_link) in characters.
MaxText == 2
\* Most list items (create_list).
MaxItems == 2
\* Most rows of a listing page.
MaxRows == 3
\* Tool invocations started in one behaviour of the shutdown specification.
MaxLifeCalls == 2
\* SIGINT / SIGTERM deliveries in one behaviour.
MaxSignals == 2
\* The frames page.frames() returns (the main frame and its children).
MaxFrames == 2

\* Invocation slots: the sequential specification uses slot 1 alone, the
\* overlapping one both.
Runs == {1, 2}

(* ------------------------- names and selectors ------------------------ *)

NoFrame == [pg |-> 0, gen |-> 0]
NoHandle == [pg |-> 0, gen |-> 0]

DocUrl == "https://docs.proton.me/u/1/doc/id"
RecentsUrl == "https://docs.proton.me/u/1/recents"
NewDocUrl == "https://docs.proton.me/u/1/doc"
TrashUrl == "https://docs.proton.me/u/1/trash"

EditorFrameSel == "iframe[data-testid=editor-frame-edit]"
MainEditorSel == "[data-testid=main-editor]"
RenameInputSel == "[data-testid=input-input-element]"
NameDropdownSel == "[data-testid=document-name-dropdown]"
DropdownRenameSel == "[data-testid=dropdown-rename]"
DropdownTrashSel == "[data-testid=dropdown-move-to-trash]"
DropdownDownloadSel == "[data-testid=dropdown-download]"
DropdownCopySel == "[data-testid=dropdown-make-copy]"
DropdownHistorySel == "[data-testid=dropdown-version-history]"
ConfirmTrashSel == "button:has-text(Move to trash)"
SearchInputSel == "input[placeholder*=Search]"
TableSel == "table"
ShareButtonSel == "button:has-text(Share)"
EmailInputSel == "input[type=email]"
PermissionDropdownSel == "[data-testid=permission-dropdown]"
CanEditSel == "button:has-text(Can edit)"
SendButtonSel == "button:has-text(Send)"
CopyButtonSel == "button:has-text(Copy)"
FontButtonSel == "button[aria-label*=Font]"
FontSizeButtonSel == "button[aria-label*=Font size]"
FontChoiceSel == "button:has-text(fontFamily)"
FontSizeChoiceSel == "button:has-text(fontSize px)"
DownloadFormatSel == "button:has-text(FORMAT)"

\* The names the call handler routes (the switch of lines 426-456).
RoutedTools ==
  { "list_documents", "read_document", "create_document", "search_documents",
    "edit_document", "delete_document", "share_document", "format_text",
    "create_list", "insert_link", "change_font", "download_document",
    "copy_document", "get_version_history", "set_alignment" }

\* The operation name each pipeline's catch block puts in its message.
OpName(tool) ==
  CASE tool = "list_documents" -> "list documents"
    [] tool = "read_document" -> "read document"
    [] tool = "create_document" -> "create document"
    [] tool = "search_documents" -> "search documents"
    [] tool = "edit_document" -> "edit document"
    [] tool = "delete_document" -> "delete document"
    [] tool = "share_document" -> "share document"
    [] tool = "format_text" -> "format text"
    [] tool = "create_list" -> "create list"
    [] tool = "insert_link" -> "insert link"
    [] tool = "change_font" -> "change font"
    [] tool = "download_document" -> "download document"
    [] tool = "copy_document" -> "copy document"
    [] tool = "get_version_history" -> "get version history"
    [] tool = "set_alignment" -> "set alignment"
    [] OTHER -> "unknown"

\* formatMap of formatText: toolbar selector and shortcut per format.  A
\* shortcut string is held as its tokens, "+" included.
formatMap ==
  [ bold |-> [selector |-> "button[title*=Bold]",
              shortcut |-> <<"Control", "+", "b">>],
    italic |-> [selector |-> "button[title*=Italic]",
                shortcut |-> <<"Control", "+", "i">>],
    underline |-> [selector |-> "button[title*=Underline]",
                   shortcut |-> <<"Control", "+", "u">>],
    strikethrough |-> [selector |-> "button[title*=Strike]",
                       shortcut |-> <<"Control", "+", "Shift", "+", "x">>] ]

Formats == {"bold", "italic", "underline", "strikethrough"}

\* format.shortcut.split('+')
SplitPlus(tokens) == SelectSeq(tokens, LAMBDA t : t # "+")

alignmentMap ==
  [ left |-> "button[title*=Align left]",
    center |-> "button[title*=Align center]",
    right |-> "button[title*=Align right]",
    justify |-> "button[title*=Justify]" ]

Alignments == {"left", "center", "right", "justify"}

listSelector(listType) ==
  IF listType = "bullet" THEN "button[title*=Bullet list]"
  ELSE "button[title*=Numbered list]"

(* ------------------------------- state -------------------------------- *)

VARIABLES
  run,          \* slot -> the invocation in it (see IdleRun)
  calls,        \* invocations started so far
  browser,      \* this.browser: 0 is null, k the k-th browser launched
  page,         \* this.page: 0 is null, k the k-th page created
  launchCalls,  \* puppeteer.launch calls issued
  launches,     \* browsers launched (launch calls that resolved)
  pageCalls,    \* newPage calls issued
  pagesCreated, \* pages created (newPage calls that resolved)
  pageGen,      \* page -> navigations started on it
  pageUrl,      \* page -> what page.url() returns
  pageOwner,    \* page -> the browser whose newPage created it
  viewport,     \* page -> setViewport has resolved on it
  pressedKeys,  \* page -> the keys its keyboard holds down
  closed,       \* browsers whose process has ended after close()
  closeLog,     \* browser.close() calls issued by stop(), in order
  stops,        \* stop() calls suspended at await this.browser.close()
  signals,      \* SIGINT / SIGTERM deliveries so far
  proc          \* the process: "running", "exit(0)" or "crashed"

session == <<browser, page, launchCalls, launches, pageCalls, pagesCreated>>
nav == <<pageGen, pageUrl>>
held == <<pageOwner, viewport, pressedKeys>>
life == <<closed, closeLog, stops, signals, proc>>
vars == <<run, calls, browser, page, launchCalls, launches, pageCalls,
          pagesCreated, pageGen, pageUrl, pageOwner, viewport, pressedKeys,
          closed, closeLog, stops, signals, proc>>

IdleRun ==
  [ tool |-> "none", raw |-> [none |-> TRUE], params |-> [none |-> TRUE],
    pc |-> "idle",
    entered |-> FALSE,   \* control has reached the pipeline's try block
    late |-> FALSE,      \* ensureBrowser returned with a browser already closed
    frame |-> NoFrame,   \* the editor frame found by frames().find
    resolved |-> FALSE,  \* frames().find has run
    surfAt |-> 0,        \* length of the log when the frame was found
    frames |-> <<>>,     \* what page.frames() just returned: per frame,
                         \* whether its name or url includes 'editor'
    fix |-> 0,           \* the position in frames of the frame find returned
    h |-> NoHandle,      \* the element handle the run holds
    i |-> 0,             \* loop index
    seen |-> <<>>,       \* the rows page.evaluate enumerated
    ext |-> <<>>,        \* what page.evaluate / page.url() returned
    log |-> <<>>,        \* calls issued on the session, in order
    outcomes |-> <<>> ]  \* results and errors delivered to the caller

Init ==
  /\ run = [r \in Runs |-> IdleRun]
  /\ calls = 0
  /\ browser = 0
  /\ page = 0
  /\ launchCalls = 0
  /\ launches = 0
  /\ pageCalls = 0
  /\ pagesCreated = 0
  /\ pageGen = <<>>
  /\ pageUrl = <<>>
  /\ pageOwner = <<>>
  /\ viewport = <<>>
  /\ pressedKeys = <<>>
  /\ closed = {}
  /\ closeLog = <<>>
  /\ stops = <<>>
  /\ signals = 0
  /\ proc = "running"

(* -------------------------- outcomes and log -------------------------- *)

Success(payload) ==
  [ok |-> TRUE, kind |-> "result", op |-> "", cause |-> "", payload |-> payload]

Failure(kind, op, cause) ==
  [ok |-> FALSE, kind |-> kind, op |-> op, cause |-> cause,
   payload |-> [none |-> TRUE]]

\* One call on page pg, which has had gen navigations started; hit is what a
\* lookup found (TRUE for a call that looks nothing up).
Entry(op, arg, ok, hit, pg) ==
  [op |-> op, arg |-> arg, ok |-> ok, hit |-> hit, pg |-> pg,
   gen |-> pageGen[pg]]

\* The run issues call e. The array page.frames() returned and the position
\* find returned in it are temporaries of the lookup's statement: the run's
\* next call leaves them behind (the frame itself stays in rc.frame).
Issued(rc, e) == [rc EXCEPT !.log = Append(@, e), !.frames = <<>>, !.fix = 0]

\* The success payload each pipeline returns.
Payload(rc) ==
  LET p == rc.params IN
  CASE rc.tool = "edit_document" ->
         [success |-> TRUE, documentUrl |-> p.documentUrl,
          action |-> IF p.append THEN "appended" ELSE "replaced"]
    [] rc.tool = "delete_document" ->
         [success |-> TRUE, action |-> "moved_to_trash",
          documentUrl |-> p.documentUrl]
    [] rc.tool = "format_text" ->
         [success |-> TRUE, format |-> p.format, applied |-> TRUE]
    [] rc.tool = "set_alignment" ->
         [success |-> TRUE, alignment |-> p.alignment]
    [] rc.tool = "list_documents" -> [documents |-> rc.ext]
    [] rc.tool = "read_document" -> [content |-> rc.ext]
    [] rc.tool = "create_document" ->
         [success |-> TRUE, documentUrl |-> rc.ext, title |-> p.title]
    [] rc.tool = "search_documents" ->
         [query |-> p.query, results |-> rc.ext, count |-> Len(rc.ext)]
    [] rc.tool = "share_document" ->
         [success |-> TRUE, documentUrl |-> p.documentUrl,
          sharedWith |-> p.email, permission |-> p.permission]
    [] rc.tool = "create_list" ->
         [success |-> TRUE, listType |-> p.listType, itemCount |-> Len(p.items)]
    [] rc.tool = "insert_link" ->
         [success |-> TRUE, text |-> p.text, url |-> p.url]
    [] rc.tool = "change_font" ->
         [success |-> TRUE, fontFamily |-> p.fontFamily, fontSize |-> p.fontSize]
    [] rc.tool = "download_document" ->
         [success |-> TRUE, format |-> p.format, message |-> "Download initiated"]
    [] rc.tool = "copy_document" ->
         [success |-> TRUE, originalUrl |-> p.documentUrl, newTitle |-> p.newTitle]
    [] rc.tool = "get_version_history" ->
         [documentUrl |-> p.documentUrl, versions |-> rc.ext, count |-> Len(rc.ext)]

\* return { content: [...] } of a pipeline.
Return(rc) ==
  [rc EXCEPT !.pc = "done", !.outcomes = Append(@, Success(Payload(rc)))]


\* Catch as it would be were the error logged and not thrown again.
CatchSwallow(rc, cause) == [rc EXCEPT !.pc = "done"]

\* Catch as it would be were the navigation tried once more before giving up.
CatchRetry(rc, cause) ==
  [rc EXCEPT !.pc = "done",
             !.log = Append(@, Entry("goto", "retry", TRUE, TRUE, page)),
             !.outcomes = Append(@, Failure("InternalError", OpName(rc.tool), cause))]

\* A pipeline's catch block: the error is wrapped with the operation's name
\* and thrown as McpError(InternalError).
Catch(rc, cause) ==
  [rc EXCEPT !.pc = "done",
             !.outcomes = Append(@, Failure("InternalError", OpName(rc.tool), cause))]

\* The position after a step: the catch block when the call just issued
\* threw (its page is closed), else a label, "return" (the pipeline returns
\* its payload) or "TypeError" (a call on a null handle, thrown inside the try).
Jump(rc, nxt) ==
  CASE rc.log # <<>> /\ ~rc.log[Len(rc.log)].ok -> Catch(rc, "TargetClosed")
    [] nxt = "return" -> Return(rc)
    [] nxt = "TypeError" -> Catch(rc, "TypeError")
    [] OTHER -> [rc EXCEPT !.pc = nxt]

\* An error thrown outside every try block reaches the caller as it is.
Throw(rc, kind, cause) ==
  [rc EXCEPT !.pc = "done", !.outcomes = Append(@, Failure(kind, "", cause))]

(* ------------------------ schemas (lines 13-89) ----------------------- *)

\* An argument is <<>> when the caller left it out and <<v>> when given.
Given(v) == <<v>>
Default(o, d) == IF o = <<>> THEN d ELSE o[1]
\* The truthiness test of `if (params.x)` on an optional string, and on an
\* optional number.
TruthyStr(o) == o # <<>> /\ o[1] # ""
TruthyNum(o) == o # <<>> /\ o[1] # 0

Urls == {"https://example.com"}
Emails == {"colleague@example.com"}

\* The lists of items callers send: up to MaxItems items, alike or not.
ItemLists == UNION {[1..n -> {"first", "second"}] : n \in 0..MaxItems}

\* What callers send: per tool, the argument objects the model draws from.
RawArgs(tool) ==
  CASE tool = "list_documents" ->
         [searchQuery : {<<>>, Given(""), Given("report")},
          limit : {<<>>, Given(-1), Given(0), Given(2)}]
    [] tool = "read_document" -> [documentUrl : {<<>>, Given(DocUrl)}]
    [] tool = "create_document" ->
         [title : {<<>>, Given("MCP Test Document")},
          content : {<<>>, Given(""), Given("text")}]
    [] tool = "search_documents" -> [query : {<<>>, Given("report")}]
    [] tool = "edit_document" ->
         [documentUrl : {<<>>, Given(DocUrl)}, content : {Given("text")},
          append : {<<>>, Given(TRUE), Given(FALSE)}]
    [] tool = "delete_document" ->
         [documentUrl : {<<>>, Given(DocUrl)},
          permanent : {<<>>, Given(TRUE), Given(FALSE)}]
    [] tool = "share_document" ->
         [documentUrl : {Given(DocUrl)},
          email : {Given("colleague@example.com"), Given("colleague")},
          permission : {<<>>, Given("view"), Given("edit")}]
    [] tool = "format_text" ->
         [documentUrl : {Given(DocUrl)},
          format : {Given(f) : f \in Formats \cup {"heading"}},
          selection : {<<>>, Given(""), Given("word")}]
    [] tool = "create_list" ->
         [documentUrl : {Given(DocUrl)},
          listType : {Given("bullet"), Given("numbered")},
          items : {<<>>} \cup {Given(l) : l \in ItemLists}]
    [] tool = "insert_link" ->
         [documentUrl : {Given(DocUrl)},
          text : {Given([k \in 1..n |-> "c"]) : n \in 0..MaxText},
          url : {Given("https://example.com"), Given("example")}]
    [] tool = "change_font" ->
         [documentUrl : {Given(DocUrl)},
          fontFamily : {<<>>, Given(""), Given("Arial")},
          fontSize : {<<>>, Given(0), Given(12)}]
    [] tool = "download_document" ->
         [documentUrl : {Given(DocUrl)},
          format : {<<>>, Given("docx"), Given("pdf"), Given("txt"),
                    Given("markdown"), Given("odt")}]
    [] tool = "copy_document" ->
         [documentUrl : {Given(DocUrl)}, newTitle : {<<>>, Given("Copy")}]
    [] tool = "get_version_history" -> [documentUrl : {<<>>, Given(DocUrl)}]
    [] tool = "set_alignment" ->
         [documentUrl : {Given(DocUrl)},
          alignment : {Given(a) : a \in Alignments \cup {"middle"}}]
    [] OTHER -> {[none |-> TRUE]}

\* The result of a failed parse as it would be were nothing validated.
InvalidAccepted == [valid |-> TRUE]

\* XSchema.parse throws a ZodError.
Invalid == [valid |-> FALSE]

ListDocumentsSchema(a) ==
  [valid |-> TRUE, searchQuery |-> a.searchQuery, limit |-> Default(a.limit, 20)]

ReadDocumentSchema(a) ==
  IF a.documentUrl = <<>> THEN Invalid
  ELSE [valid |-> TRUE, documentUrl |-> a.documentUrl[1]]

CreateDocumentSchema(a) ==
  IF a.title = <<>> THEN Invalid
  ELSE [valid |-> TRUE, title |-> a.title[1], content |-> a.content]

SearchDocumentsSchema(a) ==
  IF a.query = <<>> THEN Invalid ELSE [valid |-> TRUE, query |-> a.query[1]]

EditDocumentSchema(a) ==
  IF a.documentUrl = <<>> \/ a.content = <<>> THEN Invalid
  ELSE [valid |-> TRUE, documentUrl |-> a.documentUrl[1],
        content |-> a.content[1], append |-> Default(a.append, FALSE)]

DeleteDocumentSchema(a) ==
  IF a.documentUrl = <<>> THEN Invalid
  ELSE [valid |-> TRUE, documentUrl |-> a.documentUrl[1],
        permanent |-> Default(a.permanent, FALSE)]

ShareDocumentSchema(a) ==
  IF a.documentUrl = <<>> \/ a.email = <<>> THEN Invalid
  ELSE IF a.email[1] \notin Emails THEN Invalid
  ELSE IF Default(a.permission, "view") \notin {"view", "edit"} THEN Invalid
  ELSE [valid |-> TRUE, documentUrl |-> a.documentUrl[1], email |-> a.email[1],
        permission |-> Default(a.permission, "view")]

FormatTextSchema(a) ==
  IF a.documentUrl = <<>> \/ a.format = <<>> THEN Invalid
  ELSE IF a.format[1] \notin Formats THEN Invalid
  ELSE [valid |-> TRUE, documentUrl |-> a.documentUrl[1], format |-> a.format[1],
        selection |-> a.selection]

CreateListSchema(a) ==
  IF a.documentUrl = <<>> \/ a.listType = <<>> \/ a.items = <<>> THEN Invalid
  ELSE IF a.listType[1] \notin {"bullet", "numbered"} THEN Invalid
  ELSE [valid |-> TRUE, documentUrl |-> a.documentUrl[1],
        listType |-> a.listType[1], items |-> a.items[1]]

InsertLinkSchema(a) ==
  IF a.documentUrl = <<>> \/ a.text = <<>> \/ a.url = <<>> THEN Invalid
  ELSE IF a.url[1] \notin Urls THEN Invalid
  ELSE [valid |-> TRUE, documentUrl |-> a.documentUrl[1], text |-> a.text[1],
        url |-> a.url[1]]

ChangeFontSchema(a) ==
  IF a.documentUrl = <<>> THEN Invalid
  ELSE [valid |-> TRUE, documentUrl |-> a.documentUrl[1],
        fontFamily |-> a.fontFamily, fontSize |-> a.fontSize]

\* DownloadDocumentSchema as it would be with 'pdf' for default.
DownloadDocumentSchemaPdf(a) ==
  IF a.documentUrl = <<>> THEN Invalid
  ELSE IF Default(a.format, "pdf") \notin {"docx", "pdf", "txt", "markdown"}
  THEN Invalid
  ELSE [valid |-> TRUE, documentUrl |-> a.documentUrl[1],
        format |-> Default(a.format, "pdf")]

DownloadDocumentSchema(a) ==
  IF a.documentUrl = <<>> THEN Invalid
  ELSE IF Default(a.format, "docx") \notin {"docx", "pdf", "txt", "markdown"}
  THEN Invalid
  ELSE [valid |-> TRUE, documentUrl |-> a.documentUrl[1],
        format |-> Default(a.format, "docx")]

CopyDocumentSchema(a) ==
  IF a.documentUrl = <<>> \/ a.newTitle = <<>> THEN Invalid
  ELSE [valid |-> TRUE, documentUrl |-> a.documentUrl[1],
        newTitle |-> a.newTitle[1]]

GetVersionHistorySchema(a) ==
  IF a.documentUrl = <<>> THEN Invalid
  ELSE [valid |-> TRUE, documentUrl |-> a.documentUrl[1]]

SetAlignmentSchema(a) ==
  IF a.documentUrl = <<>> \/ a.alignment = <<>> THEN Invalid
  ELSE IF a.alignment[1] \notin Alignments THEN Invalid
  ELSE [valid |-> TRUE, documentUrl |-> a.documentUrl[1],
        alignment |-> a.alignment[1]]

\* XSchema.parse(args), the first line of each pipeline.
Parse(tool, a) ==
  CASE tool = "list_documents" -> ListDocumentsSchema(a)
    [] tool = "read_document" -> ReadDocumentSchema(a)
    [] tool = "create_document" -> CreateDocumentSchema(a)
    [] tool = "search_documents" -> SearchDocumentsSchema(a)
    [] tool = "edit_document" -> EditDocumentSchema(a)
    [] tool = "delete_document" -> DeleteDocumentSchema(a)
    [] tool = "share_document" -> ShareDocumentSchema(a)
    [] tool = "format_text" -> FormatTextSchema(a)
    [] tool = "create_list" -> CreateListSchema(a)
    [] tool = "insert_link" -> InsertLinkSchema(a)
    [] tool = "change_font" -> ChangeFontSchema(a)
    [] tool = "download_document" -> DownloadDocumentSchema(a)
    [] tool = "copy_document" -> CopyDocumentSchema(a)
    [] tool = "get_version_history" -> GetVersionHistorySchema(a)
    [] tool = "set_alignment" -> SetAlignmentSchema(a)

(* --------------------------- calls on the session --------------------- *)

\* A page answers calls while the browser that created it runs.
Usable(pg) == pg # 0 /\ pageOwner[pg] \notin closed

\* The outcomes a call on page pg can have: it may fail for its own reasons,
\* and it fails when the page's browser is closed.
Settles(pg) == IF Usable(pg) THEN BOOLEAN ELSE {FALSE}

\* A frame or element handle is usable while its page has not navigated since.
Fresh(f) == f.pg # 0 /\ pageGen[f.pg] = f.gen /\ Usable(f.pg)

Here == [pg |-> page, gen |-> pageGen[page]]

\* The keys held down once the calls es were issued, ps being the keys held
\* before: keyboard.down(key) holds key down and keyboard.up(key) releases it,
\* on the page the call went to; a call that failed reached no page.
RECURSIVE Pressed(_, _)
Pressed(ps, es) ==
  IF es = <<>> THEN ps
  ELSE LET e == Head(es) IN
       Pressed(IF e.ok /\ e.op = "keyboard.down"
                 THEN [ps EXCEPT ![e.pg] = @ \cup {e.arg}]
               ELSE IF e.ok /\ e.op = "keyboard.up"
                 THEN [ps EXCEPT ![e.pg] = @ \ {e.arg}]
               ELSE ps,
               Tail(es))

\* The run in slot r, at label l, takes one step to rcNew; the keyboard calls
\* the step issued act on the page's keyboard.
Step(r, l, rcNew) ==
  /\ proc = "running"
  /\ run[r].pc = l
  /\ run' = [run EXCEPT ![r] = rcNew]
  /\ pressedKeys' = Pressed(pressedKeys,
                            SubSeq(rcNew.log, Len(run[r].log) + 1, Len(rcNew.log)))
  /\ UNCHANGED <<calls, session, nav, pageOwner, viewport, life>>

\* await this.page!.goto(url, {waitUntil: 'networkidle2'}): the navigation
\* starts, and the call settles or times out.
Goto(r, l, url, nxt) ==
  /\ proc = "running"
  /\ run[r].pc = l
  /\ pageGen' = [pageGen EXCEPT ![page] = @ + 1]
  /\ pageUrl' = [pageUrl EXCEPT ![page] = url]
  /\ \E ok \in Settles(page) :
       LET e == [op |-> "goto", arg |-> url, ok |-> ok, hit |-> TRUE,
                 pg |-> page, gen |-> pageGen[page] + 1]
           rc == Issued(run[r], e)
       IN run' = [run EXCEPT ![r] =
                    IF ok THEN Jump(rc, nxt) ELSE Catch(rc, "TimeoutError")]
  /\ UNCHANGED <<calls, session, held, life>>

\* await this.page!.click(sel) / type(sel, text) / waitForSelector(sel): throws
\* when nothing matches sel; waitForSelector resolves to the element's handle.
OnPage(r, l, op, sel, nxt) ==
  \E ok \in Settles(page) :
    Step(r, l,
         LET rc == Issued(run[r], Entry(op, sel, ok, ok, page)) IN
         IF ok
         THEN Jump(IF op = "waitForSelector" THEN [rc EXCEPT !.h = Here] ELSE rc, nxt)
         ELSE Catch(rc, IF op = "waitForSelector" THEN "TimeoutError" ELSE "NoElement"))

\* Query as it would be were the handle found dropped and the step that
\* uses it skipped.
QueryDropped(r, l, sel, nxtFound, nxtNull) ==
  \E hit \in Settles(page) :
    Step(r, l,
         Jump([Issued(run[r], Entry("$", sel, Usable(page), hit, page))
                 EXCEPT !.h = NoHandle], nxtNull))

\* await this.page!.$(sel): the element's handle, or null.
Query(r, l, sel, nxtFound, nxtNull) ==
  \E hit \in Settles(page) :
    Step(r, l,
         LET rc == Issued(run[r], Entry("$", sel, Usable(page), hit, page)) IN
         IF hit THEN Jump([rc EXCEPT !.h = Here], nxtFound)
         ELSE Jump([rc EXCEPT !.h = NoHandle], nxtNull))

\* await handle.click() / handle.type(text) on the handle the run holds; a
\* call on null throws a TypeError before anything is issued.
OnHandle(r, l, op, arg, nxt) ==
  Step(r, l,
       IF run[r].h = NoHandle THEN Catch(run[r], "TypeError")
       ELSE LET ok == Fresh(run[r].h)
                rc == Issued(run[r], Entry(op, arg, ok, TRUE, run[r].h.pg)) IN
            IF ok THEN Jump(rc, nxt) ELSE Catch(rc, "DetachedNode"))

\* await frame.click(sel) / frame.type(sel, text) on the run's editor frame.
OnFrame(r, l, op, sel, nxt) ==
  \E present \in BOOLEAN :
    Step(r, l,
         LET fresh == Fresh(run[r].frame)
             ok == fresh /\ present
             rc == Issued(run[r], Entry(op, sel, ok, ok, run[r].frame.pg)) IN
         IF ok THEN Jump(rc, nxt)
         ELSE Catch(rc, IF fresh THEN "NoElement" ELSE "DetachedFrame"))

\* await frame.$(sel): the element's handle or null; throws on a detached frame.
FrameQuery(r, l, sel, nxtFound, nxtNull) ==
  \E hit \in BOOLEAN :
    Step(r, l,
         LET fresh == Fresh(run[r].frame)
             f == run[r].frame
             rc == Issued(run[r], Entry("frame.$", sel, fresh, fresh /\ hit, f.pg)) IN
         IF ~fresh THEN Catch(rc, "DetachedFrame")
         ELSE IF hit THEN Jump([rc EXCEPT !.h = f], nxtFound)
         ELSE Jump([rc EXCEPT !.h = NoHandle], nxtNull))

\* await this.page!.keyboard.down(key) / up(key) / press(key) / type(text): the
\* keys go to whatever this.page shows now.
Key(r, l, op, key, nxt) ==
  Step(r, l, Jump(Issued(run[r], Entry(op, key, Usable(page), TRUE, page)), nxt))

\* await this.page!.waitForTimeout(ms)
Delay(r, l, nxt) ==
  Step(r, l, Jump(Issued(run[r], Entry("waitForTimeout", "", Usable(page), TRUE,
                                       page)), nxt))

\* find as it would be were the last matching frame the one returned.
FindLast(fs) ==
  IF \E k \in 1..Len(fs) : fs[k]
  THEN CHOOSE k \in 1..Len(fs) : fs[k] /\ \A j \in (k+1)..Len(fs) : ~fs[j]
  ELSE 0

\* Array.prototype.find over the frames: the position of the first frame the
\* predicate accepts, 0 for undefined.
Find(fs) ==
  IF \E k \in 1..Len(fs) : fs[k]
  THEN CHOOSE k \in 1..Len(fs) : fs[k] /\ \A j \in 1..(k-1) : ~fs[j]
  ELSE 0

\* What page.frames() can return: the main frame first, then the child
\* frames, each matching the predicate or not (a shorter enumeration is find's
\* as one filled up with frames that do not match).
FrameLists == [1..MaxFrames -> BOOLEAN]

\* ResolveSurface as it would be were a timed-out marker wait taken for a
\* page without an editor frame.
ResolveSurfaceLenient(r, l, nxtFrame, nxtNone) ==
  \E ok \in Settles(page), fs \in FrameLists :
    Step(r, l,
         LET rc == Issued(run[r], Entry("waitForSelector", EditorFrameSel, ok, ok, page))
             found == Find(fs) # 0
             rs == [rc EXCEPT !.frame = IF ok /\ found THEN Here ELSE NoFrame,
                              !.frames = IF ok THEN fs ELSE <<>>,
                              !.fix = IF ok THEN Find(fs) ELSE 0,
                              !.resolved = TRUE, !.surfAt = Len(rc.log)]
         IN IF ok THEN Jump(rs, IF found THEN nxtFrame ELSE nxtNone)
            ELSE IF nxtNone = "return" THEN Return(rs)
            ELSE [rs EXCEPT !.pc = nxtNone])

\* await this.page!.waitForSelector('iframe[data-testid="editor-frame-edit"]')
\* and then this.page!.frames().find(f => name or url includes 'editor').
ResolveSurface(r, l, nxtFrame, nxtNone) ==
  \E ok \in Settles(page), fs \in FrameLists :
    Step(r, l,
         LET rc == Issued(run[r], Entry("waitForSelector", EditorFrameSel, ok, ok, page))
             found == Find(fs) # 0 IN
         IF ~ok THEN Catch(rc, "TimeoutError")
         ELSE Jump([rc EXCEPT !.frame = IF found THEN Here ELSE NoFrame,
                               !.frames = fs, !.fix = Find(fs),
                               !.resolved = TRUE, !.surfAt = Len(rc.log)],
                    IF found THEN nxtFrame ELSE nxtNone))

KeyCall(rc, op, key) == Issued(rc, Entry(op, key, Usable(page), TRUE, page))

SetI(rc, v) == [rc EXCEPT !.i = v]

(* ------------------- ensureBrowser (lines 112-125) -------------------- *)

\* FirstLabel as it would be were editDocument to start at the marker wait,
\* without its navigation.
FirstLabelSkipNav(tool, params) ==
  CASE tool = "list_documents" -> "L471"
    [] tool = "read_document" -> "L527"
    [] tool = "create_document" -> "L568"
    [] tool = "search_documents" -> "L628"
    [] tool = "edit_document" -> "L681"
    [] tool = "delete_document" -> IF params.permanent THEN "L728" ELSE "L740"
    [] tool = "share_document" -> "L780"
    [] tool = "format_text" -> "L829"
    [] tool = "create_list" -> "L899"
    [] tool = "insert_link" -> "L955"
    [] tool = "change_font" -> "L1010"
    [] tool = "download_document" -> "L1068"
    [] tool = "copy_document" -> "L1112"
    [] tool = "get_version_history" -> "L1154"
    [] tool = "set_alignment" -> "L1204"

\* The first await of each pipeline's try block.
FirstLabel(tool, params) ==
  CASE tool = "list_documents" -> "L471"
    [] tool = "read_document" -> "L527"
    [] tool = "create_document" -> "L568"
    [] tool = "search_documents" -> "L628"
    [] tool = "edit_document" -> "L677"
    [] tool = "delete_document" -> IF params.permanent THEN "L728" ELSE "L740"
    [] tool = "share_document" -> "L780"
    [] tool = "format_text" -> "L829"
    [] tool = "create_list" -> "L899"
    [] tool = "insert_link" -> "L955"
    [] tool = "change_font" -> "L1010"
    [] tool = "download_document" -> "L1068"
    [] tool = "copy_document" -> "L1112"
    [] tool = "get_version_history" -> "L1154"
    [] tool = "set_alignment" -> "L1204"

\* ensureBrowser has returned: control enters the pipeline's try block.
Enter(rc) ==
  [rc EXCEPT !.entered = TRUE, !.late = browser \in closed,
             !.pc = FirstLabel(rc.tool, rc.params)]

\* The test of line 113 as it would be were the browser never reused.
NeedsLaunchAlways == TRUE

\* if (!this.browser)
NeedsLaunch == browser = 0

\* if (!this.page)
NeedsPage == page = 0

\* Lines 121-124, reached with this.browser set: newPage is called when
\* this.page is null, else ensureBrowser returns.
PageCheck(r, rc) ==
  IF NeedsPage
  THEN /\ run' = [run EXCEPT ![r] = [rc EXCEPT !.pc = "L122"]]
       /\ pageCalls' = pageCalls + 1
  ELSE /\ run' = [run EXCEPT ![r] = Enter(rc)]
       /\ pageCalls' = pageCalls

\* ensureBrowser up to its first await.
CallEnsureBrowser(r, rc) ==
  IF NeedsLaunch
  THEN /\ run' = [run EXCEPT ![r] = [rc EXCEPT !.pc = "L114"]]
       /\ launchCalls' = launchCalls + 1
       /\ pageCalls' = pageCalls
  ELSE /\ PageCheck(r, rc)
       /\ launchCalls' = launchCalls

\* The awaits of ensureBrowser settle.
ensureBrowser(r) ==
  /\ proc = "running"
  /\ UNCHANGED <<calls, life>>
  /\ \/ /\ run[r].pc = "L114"   \* this.browser = await puppeteer.launch(...)
        /\ \/ /\ browser' = launches + 1
              /\ launches' = launches + 1
              /\ PageCheck(r, run[r])
           \/ /\ run' = [run EXCEPT ![r] = Throw(run[r], "Error", "launch failed")]
              /\ UNCHANGED <<browser, launches, pageCalls>>
        /\ UNCHANGED <<page, launchCalls, pagesCreated, nav, held>>
     \/ /\ run[r].pc = "L122"   \* this.page = await this.browser.newPage()
        /\ \/ /\ browser \notin closed
              /\ page' = pagesCreated + 1
              /\ pagesCreated' = pagesCreated + 1
              /\ pageGen' = Append(pageGen, 0)
              /\ pageUrl' = Append(pageUrl, "about:blank")
              /\ pageOwner' = Append(pageOwner, browser)
              /\ viewport' = Append(viewport, FALSE)
              /\ pressedKeys' = Append(pressedKeys, {})
              /\ run' = [run EXCEPT ![r].pc = "L123"]
           \/ /\ run' = [run EXCEPT ![r] = Throw(run[r], "Error", "newPage failed")]
              /\ UNCHANGED <<page, pagesCreated, nav, held>>
        /\ UNCHANGED <<browser, launchCalls, launches, pageCalls>>
     \/ /\ run[r].pc = "L123"   \* await this.page.setViewport(...)
        /\ \/ /\ Usable(page)
              /\ viewport' = [viewport EXCEPT ![page] = TRUE]
              /\ run' = [run EXCEPT ![r] = Enter(run[r])]
           \/ /\ run' = [run EXCEPT ![r] =
                           Throw(run[r], "Error", "setViewport failed")]
              /\ UNCHANGED viewport
        /\ UNCHANGED <<session, nav, pageOwner, pressedKeys>>

(* ---------------- the call handler (lines 425-463) -------------------- *)

\* Invoke as it would be were requests queued until the run in flight ends.
InvokeSerialized(r, names, max) ==
  /\ proc = "running"
  /\ calls < max
  /\ \A q \in Runs : run[q].pc \in {"idle", "done"}
  /\ calls' = calls + 1
  /\ \E name \in names : \E raw \in RawArgs(name) :
       LET rc == [IdleRun EXCEPT !.tool = name, !.raw = raw] IN
       IF name \notin RoutedTools
       THEN /\ run' = [run EXCEPT ![r] = Throw(rc, "MethodNotFound", "Unknown tool")]
            /\ UNCHANGED <<launchCalls, pageCalls>>
       ELSE LET params == Parse(name, raw) IN
            IF ~params.valid
            THEN /\ run' = [run EXCEPT ![r] = Throw(rc, "ZodError", "invalid arguments")]
                 /\ UNCHANGED <<launchCalls, pageCalls>>
            ELSE CallEnsureBrowser(r, [rc EXCEPT !.params = params])
  /\ UNCHANGED <<browser, page, launches, pagesCreated, nav, held, life>>

\* A request for tool `name` arrives: the switch routes it, the pipeline
\* parses the arguments and calls ensureBrowser, all before the first await.
Invoke(r, names, max) ==
  /\ proc = "running"
  /\ calls < max
  /\ run[r].pc \in {"idle", "done"}
  /\ calls' = calls + 1
  /\ \E name \in names : \E raw \in RawArgs(name) :
       LET rc == [IdleRun EXCEPT !.tool = name, !.raw = raw] IN
       IF name \notin RoutedTools
       THEN /\ run' = [run EXCEPT ![r] = Throw(rc, "MethodNotFound", "Unknown tool")]
            /\ UNCHANGED <<launchCalls, pageCalls>>
       ELSE LET params == Parse(name, raw) IN
            IF ~params.valid
            THEN /\ run' = [run EXCEPT ![r] = Throw(rc, "ZodError", "invalid arguments")]
                 /\ UNCHANGED <<launchCalls, pageCalls>>
            ELSE CallEnsureBrowser(r, [rc EXCEPT !.params = params])
  /\ UNCHANGED <<browser, page, launches, pagesCreated, nav, held, life>>

(* --------------------------- the pipelines ---------------------------- *)

editDocument(r) ==
  \/ Goto(r, "L677", run[r].params.documentUrl, "L681")
  \/ ResolveSurface(r, "L681", "L685", "L701")
  \/ OnFrame(r, "L685", "frame.click", MainEditorSel,
             IF run[r].params.append THEN "L688" ELSE "L693")
  \/ Key(r, "L688", "keyboard.down", "Control", "L689")
  \/ Key(r, "L689", "keyboard.press", "End", "L690")
  \/ Key(r, "L690", "keyboard.up", "Control", "L691")
  \/ Key(r, "L691", "keyboard.press", "Enter", "L698")
  \/ Key(r, "L693", "keyboard.down", "Control", "L694")
  \/ Key(r, "L694", "keyboard.press", "a", "L695")
  \/ Key(r, "L695", "keyboard.up", "Control", "L698")
  \/ OnFrame(r, "L698", "frame.type", MainEditorSel, "L701")
  \/ Delay(r, "L701", "return")

deleteDocument(r) ==
  \/ /\ proc = "running"
     /\ run[r].pc = "L728"      \* goto the trash, then throw inside the try
     /\ pageGen' = [pageGen EXCEPT ![page] = @ + 1]
     /\ pageUrl' = [pageUrl EXCEPT ![page] = TrashUrl]
     /\ \E ok \in Settles(page) :
          LET e == [op |-> "goto", arg |-> TrashUrl, ok |-> ok, hit |-> TRUE,
                    pg |-> page, gen |-> pageGen[page] + 1]
              rc == Issued(run[r], e)
          IN run' = [run EXCEPT ![r] =
                       IF ok THEN Catch(rc, "McpError(InvalidRequest)")
                       ELSE Catch(rc, "TimeoutError")]
     /\ UNCHANGED <<calls, session, held, life>>
  \/ Goto(r, "L740", run[r].params.documentUrl, "L744")
  \/ OnPage(r, "L744", "click", NameDropdownSel, "L745")
  \/ OnPage(r, "L745", "waitForSelector", DropdownTrashSel, "L746")
  \/ OnPage(r, "L746", "click", DropdownTrashSel, "L749")
  \/ Query(r, "L749", ConfirmTrashSel, "L751", "L754")
  \/ OnHandle(r, "L751", "handle.click", ConfirmTrashSel, "L754")
  \/ Delay(r, "L754", "return")

\* The first key of `keys` at or after position k that is not the last key
\* (the test of line 865), 0 when there is none.
NextDown(keys, k) ==
  LET js == {j \in k..Len(keys) : keys[j] # keys[Len(keys)]} IN
  IF js = {} THEN 0 ELSE CHOOSE j \in js : \A j2 \in js : j <= j2

\* Lines 859-863 as they would be without the else branch (as in setAlignment).
formatBranchNoFallback(params, hit) == IF hit THEN "L860" ELSE "return"

\* Lines 859-863 as they would be with the test inverted.
formatBranchInverted(params, hit) == IF ~hit THEN "L860" ELSE "L866"

\* Lines 859-863: click the button when frame.$ found it, else the shortcut.
formatBranch(params, hit) ==
  IF hit THEN "L860"
  ELSE IF NextDown(SplitPlus(formatMap[params.format].shortcut), 1) = 0
  THEN "L869" ELSE "L866"

formatText(r) ==
  \/ Goto(r, "L829", run[r].params.documentUrl, "L833")
  \/ ResolveSurface(r, "L833",
                    IF TruthyStr(run[r].params.selection) THEN "L839" ELSE "L858",
                    "return")
  \/ OnFrame(r, "L839", "frame.click", MainEditorSel, "L840")
  \/ Key(r, "L840", "keyboard.down", "Control", "L841")
  \/ Key(r, "L841", "keyboard.press", "f", "L842")
  \/ Key(r, "L842", "keyboard.up", "Control", "L843")
  \/ Key(r, "L843", "keyboard.type", run[r].params.selection[1], "L844")
  \/ Key(r, "L844", "keyboard.press", "Escape", "L858")
  \/ FrameQuery(r, "L858", formatMap[run[r].params.format].selector,
                formatBranch(run[r].params, TRUE),
                formatBranch(run[r].params, FALSE))
  \/ OnHandle(r, "L860", "handle.click",
              formatMap[run[r].params.format].selector, "return")
  \/ Step(r, "L866",            \* keyboard.down of the next key that is not the last
          LET keys == SplitPlus(formatMap[run[r].params.format].shortcut)
              k == NextDown(keys, run[r].i + 1)
          IN Jump(SetI(KeyCall(run[r], "keyboard.down", keys[k]), k),
                  IF NextDown(keys, k + 1) = 0 THEN "L869" ELSE "L866"))
  \/ Step(r, "L869",
          LET keys == SplitPlus(formatMap[run[r].params.format].shortcut)
          IN Jump(SetI(KeyCall(run[r], "keyboard.press", keys[Len(keys)]), 0),
                  IF Len(keys) = 1 THEN "return" ELSE "L871"))
  \/ Step(r, "L871",            \* keyboard.up over keys.slice(0, -1), in that order
          LET keys == SplitPlus(formatMap[run[r].params.format].shortcut)
              rest == SubSeq(keys, 1, Len(keys) - 1)
              k == run[r].i + 1
          IN Jump(SetI(KeyCall(run[r], "keyboard.up", rest[k]), k),
                  IF k = Len(rest) THEN "return" ELSE "L871"))

setAlignment(r) ==
  \/ Goto(r, "L1204", run[r].params.documentUrl, "L1208")
  \/ ResolveSurface(r, "L1208", "L1212", "return")
  \/ OnFrame(r, "L1212", "frame.click", MainEditorSel, "L1215")
  \/ Key(r, "L1215", "keyboard.down", "Control", "L1216")
  \/ Key(r, "L1216", "keyboard.press", "a", "L1217")
  \/ Key(r, "L1217", "keyboard.up", "Control", "L1227")
  \/ FrameQuery(r, "L1227", alignmentMap[run[r].params.alignment], "L1229", "return")
  \/ OnHandle(r, "L1229", "handle.click", alignmentMap[run[r].params.alignment], "return")

\* The rows of the listing the page shows: whether each has a first cell.
Listings == UNION {[1..n -> BOOLEAN] : n \in 0..MaxRows}

Min(a, b) == IF a < b THEN a ELSE b

\* The loop of lines 487-503 as it would be were the limit ignored.
ExtractRowsNoLimit(rows, limit) ==
  SelectSeq([k \in 1..Len(rows) |-> k], LAMBDA k : rows[k])

\* The loop of lines 487-503: the rows before position min(rows.length, limit)
\* that have a title cell, by their position.
ExtractRows(rows, limit) ==
  SelectSeq([k \in 1..Min(Len(rows), limit) |-> k], LAMBDA k : rows[k])

\* rows.forEach of lines 641-649 and 1170-1176: every row that has the cell.
ExtractAll(rows) == SelectSeq([k \in 1..Len(rows) |-> k], LAMBDA k : rows[k])

\* await this.page!.evaluate(fn) over the rows the page shows.
EvaluateRows(r, l, limit, nxt) ==
  \E ok \in Settles(page), rows \in Listings :
    Step(r, l,
         LET rc == Issued(run[r], Entry("evaluate", "", ok, TRUE, page)) IN
         IF ~ok THEN Catch(rc, "ContextDestroyed")
         ELSE Jump([rc EXCEPT !.seen = rows,
                               !.ext = IF limit = <<>> THEN ExtractAll(rows)
                                       ELSE ExtractRows(rows, limit[1])], nxt))

listDocuments(r) ==
  \/ Goto(r, "L471", RecentsUrl, "L475")
  \/ OnPage(r, "L475", "waitForSelector", TableSel,
            IF TruthyStr(run[r].params.searchQuery) THEN "L478" ELSE "L483")
  \/ OnPage(r, "L478", "type", SearchInputSel, "L479")
  \/ Key(r, "L479", "keyboard.press", "Enter", "L480")
  \/ Delay(r, "L480", "L483")
  \/ EvaluateRows(r, "L483", Given(run[r].params.limit), "return")

readDocument(r) ==
  \/ Goto(r, "L527", run[r].params.documentUrl, "L531")
  \/ OnPage(r, "L531", "waitForSelector", EditorFrameSel, "L535")
  \/ \E ok \in Settles(page), editor \in BOOLEAN :
       Step(r, "L535",
            LET rc == Issued(run[r], Entry("evaluate", "", ok, TRUE, page)) IN
            IF ~ok THEN Catch(rc, "ContextDestroyed")
            ELSE Return([rc EXCEPT !.ext = IF editor THEN <<"text", "html">>
                                           ELSE <<"", "">>]))

\* Line 593 as it would be were the content typed unconditionally.
afterRenameAlways(params) == "L594"

\* Line 593: the content is typed only when it is given and not empty.
afterRename(params) == IF TruthyStr(params.content) THEN "L594" ELSE "L602"

createDocument(r) ==
  \/ Goto(r, "L568", NewDocUrl, "L572")
  \/ Delay(r, "L572", "L575")
  \/ Query(r, "L575", RenameInputSel, "L577", "L582")
  \/ OnHandle(r, "L577", "handle.click", RenameInputSel, "L578")
  \/ OnHandle(r, "L578", "handle.type", RenameInputSel, "L579")
  \/ Key(r, "L579", "keyboard.press", "Enter", afterRename(run[r].params))
  \/ OnPage(r, "L582", "click", NameDropdownSel, "L583")
  \/ OnPage(r, "L583", "waitForSelector", DropdownRenameSel, "L584")
  \/ OnPage(r, "L584", "click", DropdownRenameSel, "L585")
  \/ OnPage(r, "L585", "waitForSelector", RenameInputSel, "L586")
  \/ Query(r, "L586", RenameInputSel, "L587", "TypeError")
  \/ OnHandle(r, "L587", "handle.click", RenameInputSel, "L588")
  \/ OnHandle(r, "L588", "handle.type", RenameInputSel, "L589")
  \/ Key(r, "L589", "keyboard.press", "Enter", afterRename(run[r].params))
  \/ ResolveSurface(r, "L594", "L597", "L602")
  \/ OnFrame(r, "L597", "frame.click", MainEditorSel, "L598")
  \/ OnFrame(r, "L598", "frame.type", MainEditorSel, "L602")
  \/ Step(r, "L602",            \* waitForTimeout, then this.page!.url()
          Jump([Issued(run[r], Entry("waitForTimeout", "", Usable(page), TRUE,
                                     page))
                  EXCEPT !.ext = pageUrl[page]], "return"))

searchDocuments(r) ==
  \/ Goto(r, "L628", RecentsUrl, "L632")
  \/ OnPage(r, "L632", "waitForSelector", SearchInputSel, "L633")
  \/ OnHandle(r, "L633", "handle.type", SearchInputSel, "L634")
  \/ Key(r, "L634", "keyboard.press", "Enter", "L635")
  \/ Delay(r, "L635", "L637")
  \/ EvaluateRows(r, "L637", <<>>, "return")

shareDocument(r) ==
  \/ Goto(r, "L780", run[r].params.documentUrl, "L785")
  \/ OnPage(r, "L785", "click", ShareButtonSel, "L786")
  \/ Delay(r, "L786", "L789")
  \/ OnPage(r, "L789", "waitForSelector", EmailInputSel, "L790")
  \/ OnHandle(r, "L790", "handle.type", EmailInputSel,
              IF run[r].params.permission = "edit" THEN "L794" ELSE "L802")
  \/ Query(r, "L794", PermissionDropdownSel, "L796", "L802")
  \/ OnHandle(r, "L796", "handle.click", PermissionDropdownSel, "L797")
  \/ OnPage(r, "L797", "click", CanEditSel, "L802")
  \/ OnPage(r, "L802", "click", SendButtonSel, "L803")
  \/ Delay(r, "L803", "return")

\* Line 920: the loop over the items is entered when there is an item.
itemsStart(params) == IF Len(params.items) = 0 THEN "L928" ELSE "L921"

createList(r) ==
  \/ Goto(r, "L899", run[r].params.documentUrl, "L903")
  \/ ResolveSurface(r, "L903", "L907", "return")
  \/ OnFrame(r, "L907", "frame.click", MainEditorSel, "L914")
  \/ FrameQuery(r, "L914", listSelector(run[r].params.listType), "L916",
                itemsStart(run[r].params))
  \/ OnHandle(r, "L916", "handle.click", listSelector(run[r].params.listType),
              itemsStart(run[r].params))
  \/ \E present \in BOOLEAN :   \* frame.type of item i
       Step(r, "L921",
            LET ok == Fresh(run[r].frame) /\ present
                k == run[r].i + 1
                rc == Issued(run[r], Entry("frame.type", run[r].params.items[k],
                                           ok, ok, run[r].frame.pg)) IN
            IF ~ok THEN Catch(rc, "NoElement")
            ELSE Jump(SetI(rc, k),
                      IF k - 1 < Len(run[r].params.items) - 1 THEN "L923" ELSE "L928"))
  \/ Key(r, "L923", "keyboard.press", "Enter", "L921")
  \/ Key(r, "L928", "keyboard.press", "Enter", "L929")
  \/ Key(r, "L929", "keyboard.press", "Enter", "return")

\* Line 969: the selection loop is entered when the text has a character.
selectStart(params) == IF 0 < Len(params.text) THEN "L970" ELSE "L976"

\* Line 969 as it would be were the loop to stop one character short.
selectNextShort(params, k) ==
  IF k < Len(params.text) - 1 THEN "L970" ELSE "L976"

\* Line 969, after i++: the loop goes on while i < params.text.length.
selectNext(params, k) == IF k < Len(params.text) THEN "L970" ELSE "L976"

insertLink(r) ==
  \/ Goto(r, "L955", run[r].params.documentUrl, "L959")
  \/ ResolveSurface(r, "L959", "L963", "return")
  \/ OnFrame(r, "L963", "frame.click", MainEditorSel, "L966")
  \/ OnFrame(r, "L966", "frame.type", MainEditorSel, selectStart(run[r].params))
  \/ Key(r, "L970", "keyboard.down", "Shift", "L971")
  \/ Key(r, "L971", "keyboard.press", "ArrowLeft", "L972")
  \/ Step(r, "L972",            \* keyboard.up, then i++ and the loop test
          LET k == run[r].i + 1 IN
          Jump(SetI(KeyCall(run[r], "keyboard.up", "Shift"), k),
               selectNext(run[r].params, k)))
  \/ Key(r, "L976", "keyboard.down", "Control", "L977")
  \/ Key(r, "L977", "keyboard.press", "k", "L978")
  \/ Key(r, "L978", "keyboard.up", "Control", "L980")
  \/ Delay(r, "L980", "L983")
  \/ Key(r, "L983", "keyboard.type", run[r].params.url, "L984")
  \/ Key(r, "L984", "keyboard.press", "Enter", "return")

\* Line 1035: the font size is changed only when it is given and not 0.
sizeStart(params) == IF TruthyNum(params.fontSize) THEN "L1036" ELSE "return"

\* Line 1025: the font family is changed only when it is given and not empty.
familyStart(params) ==
  IF TruthyStr(params.fontFamily) THEN "L1026" ELSE sizeStart(params)

changeFont(r) ==
  \/ Goto(r, "L1010", run[r].params.documentUrl, "L1014")
  \/ ResolveSurface(r, "L1014", "L1019", "return")
  \/ OnFrame(r, "L1019", "frame.click", MainEditorSel, "L1020")
  \/ Key(r, "L1020", "keyboard.down", "Control", "L1021")
  \/ Key(r, "L1021", "keyboard.press", "a", "L1022")
  \/ Key(r, "L1022", "keyboard.up", "Control", familyStart(run[r].params))
  \/ FrameQuery(r, "L1026", FontButtonSel, "L1028", sizeStart(run[r].params))
  \/ OnHandle(r, "L1028", "handle.click", FontButtonSel, "L1029")
  \/ Delay(r, "L1029", "L1030")
  \/ OnPage(r, "L1030", "click", FontChoiceSel, sizeStart(run[r].params))
  \/ FrameQuery(r, "L1036", FontSizeButtonSel, "L1038", "return")
  \/ OnHandle(r, "L1038", "handle.click", FontSizeButtonSel, "L1039")
  \/ Delay(r, "L1039", "L1040")
  \/ OnPage(r, "L1040", "click", FontSizeChoiceSel, "return")

downloadDocument(r) ==
  \/ Goto(r, "L1068", run[r].params.documentUrl, "L1073")
  \/ OnPage(r, "L1073", "click", NameDropdownSel, "L1074")
  \/ OnPage(r, "L1074", "waitForSelector", DropdownDownloadSel, "L1075")
  \/ OnPage(r, "L1075", "click", DropdownDownloadSel,
            IF run[r].params.format # "docx" THEN "L1079" ELSE "L1087")
  \/ Delay(r, "L1079", "L1080")
  \/ Query(r, "L1080", DownloadFormatSel, "L1082", "L1087")
  \/ OnHandle(r, "L1082", "handle.click", DownloadFormatSel, "L1087")
  \/ Delay(r, "L1087", "return")

copyDocument(r) ==
  \/ Goto(r, "L1112", run[r].params.documentUrl, "L1117")
  \/ OnPage(r, "L1117", "click", NameDropdownSel, "L1118")
  \/ OnPage(r, "L1118", "waitForSelector", DropdownCopySel, "L1119")
  \/ OnPage(r, "L1119", "click", DropdownCopySel, "L1122")
  \/ OnPage(r, "L1122", "waitForSelector", RenameInputSel, "L1123")
  \/ Query(r, "L1123", RenameInputSel, "L1124", "TypeError")
  \/ OnHandle(r, "L1124", "handle.click", RenameInputSel, "L1125")
  \/ OnHandle(r, "L1125", "handle.type", RenameInputSel, "L1128")
  \/ OnPage(r, "L1128", "click", CopyButtonSel, "L1129")
  \/ Delay(r, "L1129", "return")

getVersionHistory(r) ==
  \/ Goto(r, "L1154", run[r].params.documentUrl, "L1159")
  \/ OnPage(r, "L1159", "click", NameDropdownSel, "L1160")
  \/ OnPage(r, "L1160", "waitForSelector", DropdownHistorySel, "L1161")
  \/ OnPage(r, "L1161", "click", DropdownHistorySel, "L1163")
  \/ Delay(r, "L1163", "L1166")
  \/ EvaluateRows(r, "L1166", <<>>, "return")

(* --------------------------- specifications --------------------------- *)

Pipelines(r) ==
  \/ listDocuments(r)
  \/ readDocument(r)
  \/ createDocument(r)
  \/ searchDocuments(r)
  \/ editDocument(r)
  \/ deleteDocument(r)
  \/ shareDocument(r)
  \/ formatText(r)
  \/ createList(r)
  \/ insertLink(r)
  \/ changeFont(r)
  \/ downloadDocument(r)
  \/ copyDocument(r)
  \/ getVersionHistory(r)
  \/ setAlignment(r)

\* The names of the README's Available Tools table.
ReadmeTools ==
  { "list_documents", "create_document", "read_document", "edit_document",
    "delete_document", "search_documents", "share_document", "format_text",
    "insert_list", "insert_link", "change_font", "align_text",
    "export_document", "get_version_history", "copy_document" }

\* The catalog as it would be were the README's table what it declares.
CatalogAsReadme == ReadmeTools

\* The names of the tools the list-tools handler declares (lines 131-404).
CatalogTools ==
  { "list_documents", "read_document", "create_document", "search_documents",
    "edit_document", "delete_document", "share_document", "format_text",
    "create_list", "insert_link", "change_font", "download_document",
    "copy_document", "get_version_history", "set_alignment" }

\* The names callers ask for: the ones the switch routes and the ones the
\* README lists.
AllNames == RoutedTools \cup ReadmeTools

\* Invocations strictly one after another: slot 1 alone.
Next ==
  \/ Invoke(1, AllNames, MaxCalls)
  \/ ensureBrowser(1)
  \/ Pipelines(1)

Spec == Init /\ [][Next]_vars

\* Overlapping invocations: a request may arrive while another run is
\* suspended at an await.
OverlapNames == {"edit_document", "insert_link"}

NextOverlap ==
  \E r \in Runs :
    \/ Invoke(r, OverlapNames, MaxOverlap)
    \/ ensureBrowser(r)
    \/ editDocument(r)
    \/ insertLink(r)

SpecOverlap == Init /\ [][NextOverlap]_vars

\* Overlapping invocations of edit_document alone.
RaceNames == {"edit_document"}

NextRace ==
  \E r \in Runs :
    \/ Invoke(r, RaceNames, MaxOverlap)
    \/ ensureBrowser(r)
    \/ editDocument(r)

SpecRace == Init /\ [][NextRace]_vars

(* ------------- stop and the signal handlers (lines 1256-1276) --------- *)

\* The test of line 1257 as it would be were close() called unconditionally.
StopHoldsBrowserAlways == TRUE

\* if (this.browser)
StopHoldsBrowser == browser # 0

\* SIGINT or SIGTERM arrives: the handler calls stop().  With a browser held,
\* stop() calls this.browser.close() and the handler is suspended; with none,
\* stop() returns and the handler calls process.exit(0).
Signal ==
  /\ proc = "running"
  /\ signals < MaxSignals
  /\ signals' = signals + 1
  /\ IF StopHoldsBrowser
     THEN /\ closeLog' = Append(closeLog, [b |-> browser, dead |-> browser \in closed])
          /\ stops' = Append(stops, browser)
          /\ proc' = proc
     ELSE /\ proc' = "exit(0)"
          /\ UNCHANGED <<closeLog, stops>>
  /\ UNCHANGED <<run, calls, session, nav, held, closed>>

\* The browser process of a close() call ends.
BrowserCloses ==
  /\ proc = "running"
  /\ \E k \in DOMAIN stops :
       /\ stops[k] \notin closed
       /\ closed' = closed \cup {stops[k]}
  /\ UNCHANGED <<run, calls, session, nav, held, closeLog, stops, signals, proc>>

\* await this.browser.close() settles in a suspended handler.  Resolved:
\* stop() returns and the handler calls process.exit(0).  Rejected: the
\* handler's promise rejects with nobody to catch it, which ends the process
\* or only prints a warning, as the runtime decides.
CloseSettles ==
  /\ proc = "running"
  /\ \E k \in DOMAIN stops :
       /\ stops' = SubSeq(stops, 1, k - 1) \o SubSeq(stops, k + 1, Len(stops))
       /\ \/ stops[k] \in closed /\ proc' = "exit(0)"
          \/ stops[k] \notin closed /\ proc' \in {"crashed", "running"}
  /\ UNCHANGED <<run, calls, session, nav, held, closed, closeLog, signals>>

\* The server's life: invocations one after another, and signals at any point.
LifeNames == {"read_document"}

NextLife ==
  \/ Invoke(1, LifeNames, MaxLifeCalls)
  \/ ensureBrowser(1)
  \/ readDocument(1)
  \/ Signal
  \/ BrowserCloses
  \/ CloseSettles

SpecLife == Init /\ [][NextLife]_vars

\* The server's life while the pipelines that press key chords run: one
\* invocation after another, and signals at any point.
ChordNames == {"edit_document", "format_text"}

NextChord ==
  \/ Invoke(1, ChordNames, MaxLifeCalls)
  \/ ensureBrowser(1)
  \/ editDocument(1)
  \/ formatText(1)
  \/ Signal
  \/ BrowserCloses
  \/ CloseSettles

SpecChord == Init /\ [][NextChord]_vars

(* ------------------------------ properties ---------------------------- *)

Done(r) == run[r].pc = "done"

Indexes(r) == DOMAIN run[r].log

\* Calls that navigate the page or send it input.
InputOps ==
  { "click", "type", "handle.click", "handle.type", "frame.click", "frame.type",
    "keyboard.down", "keyboard.up", "keyboard.press", "keyboard.type" }
UiOps == InputOps \cup {"goto"}

\* C1: however two invocations overlap, at most one browser is launched and
\* at most one page is created.
C1_SingleSession == launches <= 1 /\ pagesCreated <= 1

\* C2 as stated: after any invocation of a sequence whose launches all
\* succeeded, one browser was launched and one page was created.
C2_ExactlyOnePage ==
  \A r \in Runs :
    (Done(r) /\ launches >= 1 /\ launchCalls = launches)
      => (launches = 1 /\ pagesCreated = 1)

\* C2 amended: in a sequence of invocations the browser is launched at most
\* once and the page is created at most once, and every invocation that
\* reaches its pipeline finds exactly one browser launched and one page
\* created, which are the ones the instance holds.
C2_SessionReuse ==
  /\ launches <= 1
  /\ pagesCreated <= 1
  /\ \A r \in Runs :
       run[r].entered =>
         launches = 1 /\ pagesCreated = 1 /\ browser = 1 /\ page = 1

C2_Witness ==
  calls >= 2 /\ run[1].entered /\ Done(1) /\ launchCalls = 1 /\ pageCalls = 1

\* C3: a delete_document invocation with permanent = true issues no
\* navigation, click, key press or typing.
C3_PermanentDeleteNoUi ==
  \A r \in Runs :
    (run[r].tool = "delete_document" /\ run[r].raw.permanent = Given(TRUE))
      => \A k \in Indexes(r) : run[r].log[k].op \notin UiOps

\* C4: a delete_document invocation with permanent = true that reaches its
\* pipeline ends in a failure of the unsupported-operation kind
\* (InvalidRequest), not of the catch-all kind (InternalError).
C4_PermanentDeleteKind ==
  \A r \in Runs :
    (run[r].tool = "delete_document" /\ run[r].raw.permanent = Given(TRUE)
       /\ run[r].entered /\ Done(r))
      => /\ Len(run[r].outcomes) = 1
         /\ ~run[r].outcomes[1].ok
         /\ run[r].outcomes[1].kind = "InvalidRequest"

\* C5: every invocation delivers exactly one outcome, a payload or a failure:
\* none while it runs, one when it has ended, never two.
C5_OneOutcome ==
  \A r \in Runs :
    /\ Len(run[r].outcomes) <= 1
    /\ Done(r) <=> Len(run[r].outcomes) = 1

C5_Witness ==
  \E r \in Runs :
    /\ Done(r) /\ Len(run[r].log) >= 3
    /\ ~run[r].outcomes[1].ok /\ run[r].outcomes[1].kind = "InternalError"

\* C6: a failed call is the last call its run issues, and the run has ended
\* in a failure: nothing is retried, continued or rolled back.
C6_NoStepAfterFailure ==
  \A r \in Runs : \A k \in Indexes(r) :
    ~run[r].log[k].ok =>
      /\ k = Len(run[r].log)
      /\ Done(r)
      /\ Len(run[r].outcomes) = 1
      /\ ~run[r].outcomes[1].ok

C6_Witness ==
  \E r \in Runs :
    /\ run[r].tool = "create_document" /\ Done(r)
    /\ Len(run[r].log) >= 4 /\ ~run[r].log[Len(run[r].log)].ok

\* C7: once a run has found its editor frame, every click, typing or key
\* press of the run that succeeds is delivered to the page and navigation
\* the frame belongs to.
C7_StaleSurface ==
  \A r \in Runs :
    run[r].frame # NoFrame =>
      \A k \in Indexes(r) :
        (k > run[r].surfAt /\ run[r].log[k].ok /\ run[r].log[k].op \in InputOps)
          => /\ run[r].log[k].pg = run[r].frame.pg
             /\ run[r].log[k].gen = run[r].frame.gen

\* The lookups of a run that came back null.
Absent(r) ==
  {k \in Indexes(r) : run[r].log[k].op \in {"frame.$", "$"}
                        /\ run[r].log[k].ok /\ ~run[r].log[k].hit}

\* The shortcut the claim expects for each format: modifiers, terminal key.
Chord(format) ==
  CASE format = "bold" -> [mods |-> {"Control"}, key |-> "b"]
    [] format = "italic" -> [mods |-> {"Control"}, key |-> "i"]
    [] format = "underline" -> [mods |-> {"Control"}, key |-> "u"]
    [] format = "strikethrough" -> [mods |-> {"Control", "Shift"}, key |-> "x"]

\* The calls of run r after position q whose op is op.
After(r, q, op) == {k \in Indexes(r) : k > q /\ run[r].log[k].op = op}

\* C8: a format_text run that found the frame and no toolbar button, once
\* ended, has pressed and released the modifiers of the format's shortcut,
\* pressed its terminal key once, clicked no button, and returned applied.
C8_ShortcutFallback ==
  \A r \in Runs :
    (run[r].tool = "format_text" /\ Done(r) /\ Absent(r) # {})
      => LET q == CHOOSE k \in Absent(r) : TRUE
             c == Chord(run[r].params.format)
             log == run[r].log
         IN /\ run[r].frame # NoFrame
            /\ {log[k].arg : k \in After(r, q, "keyboard.down")} = c.mods
            /\ {log[k].arg : k \in After(r, q, "keyboard.up")} = c.mods
            /\ Cardinality(After(r, q, "keyboard.press")) = 1
            /\ \A k \in After(r, q, "keyboard.press") : log[k].arg = c.key
            /\ \A k \in Indexes(r) : log[k].op # "handle.click"
            /\ Len(run[r].outcomes) = 1
            /\ run[r].outcomes[1].ok
            /\ run[r].outcomes[1].payload.applied

C8_Witness ==
  \E r \in Runs :
    /\ run[r].tool = "format_text" /\ Done(r) /\ Absent(r) # {}
    /\ run[r].params.format = "strikethrough"
    /\ Len(run[r].log) >= 8

\* C9: a run of set_alignment, create_list, change_font or download_document
\* in which the button looked up was absent ends in a failure.
C9_AbsentButtonFails ==
  \A r \in Runs :
    (run[r].tool \in {"set_alignment", "create_list", "change_font",
                      "download_document"}
       /\ Done(r) /\ Absent(r) # {})
      => ~run[r].outcomes[1].ok

\* C10: in format_text the button is clicked or the shortcut dispatched only
\* after the button was looked up, never both; the shortcut only when the
\* lookup found nothing; and a run that ended after the lookup did one of them.
C10_ExactlyOnePath ==
  \A r \in Runs :
    run[r].tool = "format_text" =>
      LET log == run[r].log
          looked == {k \in Indexes(r) : log[k].op = "frame.$" /\ log[k].ok}
          clicks == {k \in Indexes(r) : log[k].op = "handle.click"}
          chords == {k \in Indexes(r) : log[k].op = "keyboard.press"
                                          /\ log[k].arg \in {"b", "i", "u", "x"}}
          keys == {k \in Indexes(r) : \E q \in looked :
                     k > q /\ log[k].op \in {"keyboard.down", "keyboard.press",
                                             "keyboard.up"}}
      IN /\ Cardinality(looked) <= 1
         /\ (clicks # {} \/ chords # {}) => looked # {}
         /\ ~(clicks # {} /\ keys # {})
         /\ keys # {} => \A q \in looked : ~log[q].hit
         /\ clicks # {} => \A q \in looked : log[q].hit
         /\ (Done(r) /\ looked # {}) =>
              Cardinality(clicks) + Cardinality(chords) = 1

C10_Witness ==
  \E r \in Runs :
    /\ run[r].tool = "format_text" /\ Done(r)
    /\ \E k \in Indexes(r) : run[r].log[k].op = "handle.click" /\ run[r].log[k].ok
    /\ run[r].outcomes[1].ok

\* The arguments of the calls of run r after position q whose op is op, in
\* the order they were issued.
Args(r, q, op) ==
  LET tail == SubSeq(run[r].log, q + 1, Len(run[r].log))
      sel == SelectSeq(tail, LAMBDA e : e.op = op)
  IN [k \in 1..Len(sel) |-> sel[k].arg]

Reverse(seq) == [k \in 1..Len(seq) |-> seq[Len(seq) + 1 - k]]

\* C11: a format_text run that dispatched its shortcut has pressed the
\* modifiers down in declared order, all before the terminal key, and has
\* released them after the terminal key in the reverse of that order.
C11_ChordOrder ==
  \A r \in Runs :
    (run[r].tool = "format_text" /\ Done(r) /\ Absent(r) # {}
       /\ run[r].outcomes[1].ok)
      => LET q == CHOOSE k \in Absent(r) : TRUE
             keys == SplitPlus(formatMap[run[r].params.format].shortcut)
             mods == SubSeq(keys, 1, Len(keys) - 1)
             log == run[r].log
         IN /\ Args(r, q, "keyboard.down") = mods
            /\ Args(r, q, "keyboard.press") = <<keys[Len(keys)]>>
            /\ Args(r, q, "keyboard.up") = Reverse(mods)
            /\ \A d \in After(r, q, "keyboard.down") :
                 \A t \in After(r, q, "keyboard.press") : d < t
            /\ \A u \in After(r, q, "keyboard.up") :
                 \A t \in After(r, q, "keyboard.press") : t < u

\* The operations that act on the editor.
EditorOps ==
  { "edit_document", "format_text", "create_list", "insert_link", "change_font",
    "set_alignment" }

\* C12: an editor operation whose marker wait succeeded and whose frame search
\* found no frame still performs its action steps (on the top-level page): a
\* run that has ended has issued a click, typing or key press after the search.
C12_TopLevelFallback ==
  \A r \in Runs :
    (run[r].tool \in EditorOps /\ Done(r) /\ run[r].resolved
       /\ run[r].frame = NoFrame)
      => \E k \in Indexes(r) :
           k > run[r].surfAt /\ run[r].log[k].op \in InputOps

\* The operations that wait for the editor-mounted marker.
MarkerOps == EditorOps \cup {"read_document", "create_document"}

\* The marker waits of run r that timed out.
MarkerMissed(r) ==
  {k \in Indexes(r) : run[r].log[k].op = "waitForSelector"
                        /\ run[r].log[k].arg = EditorFrameSel
                        /\ ~run[r].log[k].ok}

\* C13: a run whose wait for the editor-mounted marker timed out ends in a
\* failure right there: the wait is its last call, it returns no payload, and
\* it has issued no call on the editor frame; an editor operation or
\* read_document has issued no click, typing or key press at all.
C13_NoMarkerFails ==
  \A r \in Runs :
    (run[r].tool \in MarkerOps /\ MarkerMissed(r) # {})
      => /\ MarkerMissed(r) = {Len(run[r].log)}
         /\ Done(r)
         /\ Len(run[r].outcomes) = 1
         /\ ~run[r].outcomes[1].ok
         /\ run[r].frame = NoFrame
         /\ \A k \in Indexes(r) :
              run[r].log[k].op \notin {"frame.click", "frame.type", "frame.$"}
         /\ run[r].tool # "create_document" =>
              \A k \in Indexes(r) : run[r].log[k].op \notin InputOps

C13_Witness ==
  \E r \in Runs :
    /\ run[r].tool = "set_alignment" /\ Done(r)
    /\ MarkerMissed(r) # {} /\ Usable(page)
    /\ run[r].outcomes[1].cause = "TimeoutError"

\* The session the instance holds is complete: a browser, a page of it, and
\* the viewport set on that page.
Complete == browser # 0 /\ page # 0 /\ viewport[page]

\* C14: after an invocation failed in ensureBrowser the instance holds either
\* nothing or a complete session, and every invocation that gets past
\* ensureBrowser works on a complete session (no step that did not complete
\* is skipped by a later acquisition).
C14_NoPartialSession ==
  \A r \in Runs :
    /\ (Done(r) /\ ~run[r].entered /\ run[r].outcomes[1].kind = "Error")
         => ((browser = 0 /\ page = 0) \/ Complete)
    /\ run[r].entered => Complete

\* puppeteer.launch calls that rejected.
LaunchFailures ==
  launchCalls - launches - Cardinality({r \in Runs : run[r].pc = "L114"})

\* C15: once a browser launch has failed, no launch is attempted again and no
\* invocation on the instance gets past ensureBrowser or returns a payload.
C15_LaunchFailureFatal ==
  LaunchFailures >= 1 =>
    /\ launchCalls = 1
    /\ \A r \in Runs :
         /\ ~run[r].entered
         /\ Done(r) => ~run[r].outcomes[1].ok

\* C16: when the process has exited from a signal handler, no browser launch
\* is still in flight and every browser that was launched has been closed.
C16_NoBrowserLeft ==
  proc = "exit(0)" =>
    /\ \A r \in Runs : run[r].pc # "L114"
    /\ \A b \in 1..launches : b \in closed

\* C17: no invocation gets from ensureBrowser a browser that was already
\* closed, and stop() never calls close() on a browser that was already closed.
C17_Invalidated ==
  /\ \A r \in Runs : ~run[r].late
  /\ \A k \in DOMAIN closeLog : ~closeLog[k].dead

\* C18: stop() never calls close() without a browser, and a signal that
\* arrives before any invocation ends the process with exit(0) with nothing
\* closed, nothing launched, no page created and browser and page unset.
C18_StopWithoutSession ==
  /\ \A k \in DOMAIN closeLog : closeLog[k].b # 0
  /\ (signals >= 1 /\ calls = 0) =>
       /\ proc = "exit(0)"
       /\ closeLog = <<>> /\ stops = <<>> /\ closed = {}
       /\ browser = 0 /\ page = 0
       /\ launchCalls = 0 /\ pageCalls = 0

C18_Witness == signals = 1 /\ calls = 0 /\ proc # "running"

\* C19: every failure of an invocation of a routed tool is one failure whose
\* message is "Failed to <operation>: <cause>" for that tool's operation.
C19_FailuresNameOperation ==
  \A r \in Runs :
    (run[r].tool \in RoutedTools /\ Done(r) /\ ~run[r].outcomes[1].ok)
      => /\ Len(run[r].outcomes) = 1
         /\ run[r].outcomes[1].op = OpName(run[r].tool)
         /\ run[r].outcomes[1].cause # ""

\* The phase a call belongs to: 1 navigating, 2 resolving (the wait for the
\* editor-mounted marker), 3 acting (lookups, input, settling delays),
\* 4 extracting.
Phase(e) ==
  CASE e.op = "goto" -> 1
    [] e.op = "waitForSelector" /\ e.arg = EditorFrameSel -> 2
    [] e.op = "evaluate" -> 4
    [] OTHER -> 3

\* The calls of run r follow the order navigating, resolving, acting,
\* extracting.
InPhaseOrder(r) ==
  \A j \in Indexes(r) : \A k \in Indexes(r) :
    j < k => Phase(run[r].log[j]) <= Phase(run[r].log[k])

\* C20 as stated: in every run the calls follow the phase order, so that no
\* action is issued before the navigation has completed and the Surface has
\* been resolved.
C20_PhaseOrder ==
  \A r \in Runs :
    /\ InPhaseOrder(r)
    /\ \A k \in Indexes(r) :
         run[r].log[k].op \in InputOps => run[r].log[1].op = "goto" /\ run[r].log[1].ok

\* What C20 amended says of the calls of run r: the first call is the
\* navigation and nothing follows it unless it succeeded; there is one
\* navigation; calls on the editor frame come after the frame was found; and
\* the phase order holds in every operation but create_document.
Phased(r) ==
  LET log == run[r].log IN
  /\ log # <<>> => log[1].op = "goto"
  /\ Len(log) >= 2 => log[1].ok
  /\ \A k \in Indexes(r) : k > 1 => log[k].op # "goto"
  /\ \A k \in Indexes(r) :
       log[k].op \in {"frame.click", "frame.type", "frame.$"}
         => run[r].resolved /\ run[r].frame # NoFrame /\ k > run[r].surfAt
  /\ run[r].tool # "create_document" => InPhaseOrder(r)

\* A run that has ended takes no further step: its slot changes only when a
\* new invocation starts in it.
Terminal(r) ==
  Done(r) =>
    \/ run'[r] = run[r]
    \/ /\ calls' = calls + 1
       /\ run'[r].log = <<>>

\* C20 amended: every run navigates first and acts only after the navigation
\* has completed, acts on the editor frame only after it has resolved it,
\* extracts last, and takes no step after it has ended; create_document
\* renames the document on the top-level page before it resolves the frame.
C20_Phases == [][\A r \in Runs : Phased(r)' /\ Terminal(r)]_vars

C20_Witness ==
  \E r \in Runs :
    /\ run[r].tool = "create_document" /\ Done(r) /\ run[r].outcomes[1].ok
    /\ \E k \in Indexes(r) : run[r].log[k].op = "frame.type"
    /\ \E k \in Indexes(r) : run[r].log[k].op = "handle.type"

\* The list_documents runs that returned a payload.
Listed(r) ==
  run[r].tool = "list_documents" /\ Done(r) /\ run[r].outcomes[1].ok

\* C21 as stated: the documents returned are the first min(L, R) rows of the
\* listing, one entry per row, and never more than L.
C21_FirstRows ==
  \A r \in Runs :
    Listed(r) =>
      LET docs == run[r].outcomes[1].payload.documents
          n == Min(run[r].params.limit, Len(run[r].seen))
      IN /\ docs = [k \in 1..n |-> k]
         /\ Len(docs) <= run[r].params.limit

\* C21 amended: the documents returned are, in row order and without
\* duplicates, exactly the rows among the first min(L, R) that have a title
\* cell; there are at most min(L, R) of them, and none when L <= 0.
C21_ListLimit ==
  \A r \in Runs :
    Listed(r) =>
      LET docs == run[r].outcomes[1].payload.documents
          L == run[r].params.limit
          n == IF L <= 0 THEN 0
               ELSE IF L < Len(run[r].seen) THEN L ELSE Len(run[r].seen)
      IN /\ \A i \in DOMAIN docs : docs[i] \in 1..n /\ run[r].seen[docs[i]]
         /\ \A i \in DOMAIN docs : \A j \in DOMAIN docs : i < j => docs[i] < docs[j]
         /\ \A k \in 1..n : run[r].seen[k] => \E i \in DOMAIN docs : docs[i] = k
         /\ Len(docs) <= n

C21_Witness ==
  \E r \in Runs :
    /\ Listed(r)
    /\ run[r].params.limit = 2 /\ Len(run[r].seen) = 3
    /\ run[r].outcomes[1].payload.documents = <<2>>

\* The create_document runs without content (absent or empty) that returned
\* a payload.
CreatedBare(r) ==
  /\ run[r].tool = "create_document" /\ Done(r) /\ run[r].outcomes[1].ok
  /\ ~TruthyStr(run[r].raw.content)

\* C22: create_document with a title and no content that succeeds returns the
\* requested title and a non-empty documentUrl, has typed the title into the
\* rename input, and has issued no wait for the editor frame and no call on it.
C22_CreateBare ==
  \A r \in Runs :
    CreatedBare(r) =>
      /\ run[r].outcomes[1].payload.title = run[r].raw.title[1]
      /\ run[r].outcomes[1].payload.documentUrl # ""
      /\ run[r].outcomes[1].payload.success
      /\ \E k \in Indexes(r) :
           run[r].log[k].op = "handle.type" /\ run[r].log[k].arg = RenameInputSel
      /\ ~run[r].resolved /\ run[r].frame = NoFrame
      /\ \A k \in Indexes(r) :
           /\ run[r].log[k].op \notin {"frame.click", "frame.type", "frame.$"}
           /\ run[r].log[k].arg # EditorFrameSel

C22_Witness ==
  \E r \in Runs :
    /\ CreatedBare(r)
    /\ \E k \in Indexes(r) :
         run[r].log[k].op = "click" /\ run[r].log[k].arg = DropdownRenameSel

\* The operations that act on the document their documentUrl argument names.
DocTools == RoutedTools \ {"list_documents", "create_document", "search_documents"}

\* C23: the success payload of every operation on a document carries that
\* document's URL (as documentUrl, or originalUrl for a copy), and that of
\* create_document the URL produced.
C23_PayloadHasUrl ==
  \A r \in Runs :
    (Done(r) /\ run[r].outcomes[1].ok) =>
      LET payload == run[r].outcomes[1].payload IN
      /\ run[r].tool \in DocTools =>
           \/ /\ "documentUrl" \in DOMAIN payload
              /\ payload.documentUrl = run[r].params.documentUrl
           \/ /\ "originalUrl" \in DOMAIN payload
              /\ payload.originalUrl = run[r].params.documentUrl
      /\ run[r].tool = "create_document" =>
           "documentUrl" \in DOMAIN payload /\ payload.documentUrl # ""

\* The calls a docx download issues, in order: op and argument.
DocxCalls ==
  << <<"goto", DocUrl>>, <<"click", NameDropdownSel>>,
     <<"waitForSelector", DropdownDownloadSel>>, <<"click", DropdownDownloadSel>>,
     <<"waitForTimeout", "">> >>

\* C24: a download_document run called without a format and one called with
\* format 'docx' issue the same calls, the five of a docx download in that
\* order with no lookup or click of a format button, and both report 'docx'.
C24_DefaultFormat ==
  \A r \in Runs :
    (run[r].tool = "download_document" /\ run[r].entered
       /\ run[r].raw.format \in {<<>>, Given("docx")})
      => /\ run[r].params.format = "docx"
         /\ Len(run[r].log) <= Len(DocxCalls)
         /\ \A k \in Indexes(r) :
              <<run[r].log[k].op, run[r].log[k].arg>> = DocxCalls[k]
         /\ (Done(r) /\ run[r].outcomes[1].ok) =>
              /\ Len(run[r].log) = Len(DocxCalls)
              /\ run[r].outcomes[1].payload.format = "docx"

C24_Witness ==
  \E r \in Runs :
    /\ run[r].tool = "download_document" /\ run[r].raw.format = <<>>
    /\ Done(r) /\ run[r].outcomes[1].ok

\* C25: no invocation of a tool the README lists is rejected as an unknown
\* tool.
C25_ReadmeToolsRouted ==
  \A r \in Runs :
    (run[r].tool \in ReadmeTools /\ Done(r))
      => run[r].outcomes[1].kind # "MethodNotFound"

\* A required field is missing from the arguments.
Missing(a, fields) == \E f \in fields : a[f] = <<>>

\* The arguments the claim calls failing: a required field missing, a value
\* outside its enumeration, a malformed email or URL.
Malformed(tool, a) ==
  CASE tool = "list_documents" -> FALSE
    [] tool = "read_document" -> Missing(a, {"documentUrl"})
    [] tool = "create_document" -> Missing(a, {"title"})
    [] tool = "search_documents" -> Missing(a, {"query"})
    [] tool = "edit_document" -> Missing(a, {"documentUrl", "content"})
    [] tool = "delete_document" -> Missing(a, {"documentUrl"})
    [] tool = "share_document" ->
         \/ Missing(a, {"documentUrl", "email"})
         \/ a.email[1] \notin Emails
         \/ a.permission # <<>> /\ a.permission[1] \notin {"view", "edit"}
    [] tool = "format_text" ->
         Missing(a, {"documentUrl", "format"}) \/ a.format[1] \notin Formats
    [] tool = "create_list" ->
         \/ Missing(a, {"documentUrl", "listType", "items"})
         \/ a.listType[1] \notin {"bullet", "numbered"}
    [] tool = "insert_link" ->
         Missing(a, {"documentUrl", "text", "url"}) \/ a.url[1] \notin Urls
    [] tool = "change_font" -> Missing(a, {"documentUrl"})
    [] tool = "download_document" ->
         \/ Missing(a, {"documentUrl"})
         \/ a.format # <<>> /\ a.format[1] \notin {"docx", "pdf", "txt", "markdown"}
    [] tool = "copy_document" -> Missing(a, {"documentUrl", "newTitle"})
    [] tool = "get_version_history" -> Missing(a, {"documentUrl"})
    [] tool = "set_alignment" ->
         Missing(a, {"documentUrl", "alignment"}) \/ a.alignment[1] \notin Alignments

\* C26: an invocation whose arguments fail the tool's schema ends at once
\* with the validation error and touches nothing of the session: no launch,
\* no page, no navigation, no call on the page.
C26_ValidationFirst ==
  [][\A r \in Runs :
       (run'[r] # run[r] /\ run'[r].tool \in RoutedTools
          /\ Malformed(run'[r].tool, run'[r].raw))
         => /\ run'[r].pc = "done"
            /\ run'[r].outcomes = <<Failure("ZodError", "", "invalid arguments")>>
            /\ run'[r].log = <<>>
            /\ ~run'[r].entered
            /\ UNCHANGED <<session, nav, held, life>>]_vars

C26_Witness ==
  \E r \in Runs :
    /\ run[r].tool = "share_document" /\ Done(r)
    /\ run[r].raw.email = Given("colleague")
    /\ run[r].outcomes[1].kind = "ZodError"
    /\ launches = 1 /\ pagesCreated = 1

\* Run r has found its editor frame and has issued nothing since, and the
\* page the frame belongs to has started another navigation meanwhile.
Overtaken(r) ==
  /\ run[r].entered /\ ~Done(r)
  /\ run[r].frame # NoFrame
  /\ Len(run[r].log) = run[r].surfAt
  /\ pageGen[run[r].frame.pg] > run[r].frame.gen

\* C27: requests are not queued: whatever another run is doing (suspended at
\* a navigation, a wait or a delay), a request can start in a free slot at
\* once.
C27_NotSerialized ==
  \A r \in Runs :
    (proc = "running" /\ calls < MaxOverlap /\ run[r].pc \in {"idle", "done"})
      => ENABLED Invoke(r, RaceNames, MaxOverlap)

C27_Witness ==
  \E r \in Runs : \E q \in Runs :
    /\ r # q /\ Overtaken(r)
    /\ run[q].entered /\ ~Done(q)
    /\ run[q].log # <<>>
    /\ run[q].log[Len(run[q].log)].op = "goto"
    /\ run[q].log[Len(run[q].log)].pg = run[r].frame.pg
    /\ run[q].log[Len(run[q].log)].gen > run[r].frame.gen

(* ------------------------ C28: the frame chosen ------------------------ *)

\* Run r has just looked its editor frame up: nothing was issued since.
JustResolved(r) == run[r].resolved /\ run[r].surfAt = Len(run[r].log)

\* The frames of run r's enumeration that match the editor criterion.
Matching(r) == {k \in 1..Len(run[r].frames) : run[r].frames[k]}

\* C28: for every tool, when a run has looked its editor frame up, the frame
\* it goes on with is the first frame of the enumeration, in the enumeration's
\* order, that matches the criterion, whenever one or several frames match;
\* and it has no frame exactly when none matches.
C28_FirstMatchingFrame ==
  \A r \in Runs :
    JustResolved(r) =>
      /\ run[r].frames \in FrameLists
      /\ Matching(r) = {} <=> run[r].frame = NoFrame
      /\ Matching(r) = {} <=> run[r].fix = 0
      /\ Matching(r) # {} =>
           /\ run[r].fix \in Matching(r)
           /\ \A k \in Matching(r) : run[r].fix <= k

\* Two frames matched, and the run goes on with the first of them.
C28_Witness ==
  \E r \in Runs :
    /\ JustResolved(r)
    /\ run[r].frames = <<TRUE, TRUE>>
    /\ run[r].fix = 1
    /\ run[r].frame # NoFrame
    /\ run[r].pc \notin {"idle", "done"}

(* --------------------- C29: what an edit reports ----------------------- *)

\* The key and typing calls of run r, in the order they were issued.
KeysAndTyping(r) ==
  LET sel == SelectSeq(run[r].log,
                       LAMBDA e : e.op \in {"keyboard.down", "keyboard.press",
                                            "keyboard.up", "frame.type"})
  IN [k \in 1..Len(sel) |-> <<sel[k].op, sel[k].arg>>]

\* C29: an edit_document run that returned its success payload reports
\* 'replaced' only after Control down, 'a', Control up and then the typing
\* into the editor, and 'appended' only after Control down, End, Control up,
\* Enter and then the typing, each call having succeeded; no run returns
\* success without having typed the content.
C29_TypedBeforeSuccess ==
  \A r \in Runs :
    (run[r].tool = "edit_document" /\ Done(r) /\ run[r].outcomes[1].ok)
      => /\ \A k \in Indexes(r) : run[r].log[k].ok
         /\ run[r].outcomes[1].payload.action = "replaced"
              => KeysAndTyping(r) =
                   << <<"keyboard.down", "Control">>, <<"keyboard.press", "a">>,
                      <<"keyboard.up", "Control">>,
                      <<"frame.type", MainEditorSel>> >>
         /\ run[r].outcomes[1].payload.action = "appended"
              => KeysAndTyping(r) =
                   << <<"keyboard.down", "Control">>, <<"keyboard.press", "End">>,
                      <<"keyboard.up", "Control">>, <<"keyboard.press", "Enter">>,
                      <<"frame.type", MainEditorSel>> >>

(* ----------------------- C30: moving to the trash ---------------------- *)

\* The calls of run r, in the order they were issued.
Issues(r) == [k \in Indexes(r) |-> <<run[r].log[k].op, run[r].log[k].arg>>]

\* The steps of the move-to-trash branch up to the look for the confirmation.
TrashSteps(url) ==
  << <<"goto", url>>, <<"click", NameDropdownSel>>,
     <<"waitForSelector", DropdownTrashSel>>, <<"click", DropdownTrashSel>>,
     <<"$", ConfirmTrashSel>> >>

\* Run r is a delete_document run with permanent = false (given or defaulted)
\* that returned its success payload.
MovedToTrash(r) ==
  /\ run[r].tool = "delete_document"
  /\ Done(r)
  /\ run[r].outcomes[1].ok
  /\ run[r].outcomes[1].payload.action = "moved_to_trash"

\* C30: a delete_document run with permanent = false that returned
\* 'moved_to_trash' has navigated to the document, opened the document menu,
\* waited for and clicked the move-to-trash entry, in that order and each with
\* success; it has clicked the confirmation button exactly when the look for
\* it found one; and it has not navigated to the trash view. A run with
\* permanent = false never navigates to the trash view, however it ends.
C30_MovedToTrash ==
  \A r \in Runs :
    /\ MovedToTrash(r) =>
         LET url == run[r].params.documentUrl
             confirm == run[r].log[5].hit
         IN /\ ~run[r].params.permanent
            /\ \A k \in Indexes(r) : run[r].log[k].ok
            /\ Issues(r) =
                 TrashSteps(url)
                   \o (IF confirm THEN << <<"handle.click", ConfirmTrashSel>> >>
                       ELSE << >>)
                   \o << <<"waitForTimeout", "">> >>
    /\ (run[r].tool = "delete_document" /\ run[r].raw.permanent # Given(TRUE))
         => \A k \in Indexes(r) : Issues(r)[k] # <<"goto", TrashUrl>>

\* A move to the trash whose confirmation button was present and clicked.
C30_Witness ==
  \E r \in Runs :
    /\ MovedToTrash(r)
    /\ run[r].raw.permanent \in {<<>>, Given(FALSE)}
    /\ run[r].log[5].hit
    /\ Issues(r)[6] = <<"handle.click", ConfirmTrashSel>>

(* ------------------- C31: the catalog and the switch ------------------- *)

AllEnded == \A r \in Runs : run[r].pc \in {"idle", "done"}

\* C32: whenever no run is under way (every run so far has ended, in success
\* or in failure, and the next one has not started), no page of the session
\* has a key held down: a run releases every modifier it pressed, and the next
\* run starts with none held.
C32_NoModifierHeld ==
  AllEnded => \A pg \in DOMAIN pressedKeys : pressedKeys[pg] = {}

(* -------------------- C33: the permission reported --------------------- *)

\* The positions of run r's log at which op was issued on sel with success.
Did(r, op, sel) ==
  {k \in Indexes(r) : run[r].log[k].op = op /\ run[r].log[k].arg = sel
                        /\ run[r].log[k].ok}

\* C33: a share_document run that returned its success payload with
\* permission 'edit' has clicked the permission dropdown and then 'Can edit',
\* both before the click on Send; and a run that reports 'view' has not chosen
\* 'Can edit'.
C33_PermissionSet ==
  \A r \in Runs :
    (run[r].tool = "share_document" /\ Done(r) /\ run[r].outcomes[1].ok)
      => LET p == run[r].outcomes[1].payload.permission IN
         /\ p = "edit" =>
              \E d \in Did(r, "handle.click", PermissionDropdownSel) :
                \E e \in Did(r, "click", CanEditSel) :
                  \E s \in Did(r, "click", SendButtonSel) : d < e /\ e < s
         /\ p = "view" => Did(r, "click", CanEditSel) = {}

(* --------------------- C34: selecting the link text -------------------- *)

\* n selections of one character: Shift down, ArrowLeft, Shift up, n times.
Selections(n) ==
  [k \in 1..(3 * n) |->
     CASE k % 3 = 1 -> <<"keyboard.down", "Shift">>
       [] k % 3 = 2 -> <<"keyboard.press", "ArrowLeft">>
       [] OTHER -> <<"keyboard.up", "Shift">>]

\* What insert_link issues once the text is typed, for a text of n characters.
LinkSteps(n, url) ==
  Selections(n)
    \o << <<"keyboard.down", "Control">>, <<"keyboard.press", "k">>,
          <<"keyboard.up", "Control">>, <<"waitForTimeout", "">>,
          <<"keyboard.type", url>>, <<"keyboard.press", "Enter">> >>

\* C34: an insert_link run that has typed its text of n characters issues
\* after it n times Shift down, ArrowLeft, Shift up, then Control down, k,
\* Control up, then (after a delay) types the URL and presses Enter, in that
\* order and nothing else: what it has issued so far is the beginning of that
\* sequence, and all of it once the run has returned its payload. Shift is not
\* held on the page when k is pressed.
C34_SelectThenLink ==
  \A r \in Runs :
    (run[r].tool = "insert_link" /\ Did(r, "frame.type", MainEditorSel) # {})
      => LET q == CHOOSE k \in Did(r, "frame.type", MainEditorSel) : TRUE
             n == Len(run[r].params.text)
             want == LinkSteps(n, run[r].params.url)
             got == SubSeq(Issues(r), q + 1, Len(run[r].log))
         IN /\ Len(got) <= Len(want)
            /\ got = SubSeq(want, 1, Len(got))
            /\ (Done(r) /\ run[r].outcomes[1].ok) => got = want
            /\ run[r].pc = "L977" => "Shift" \notin pressedKeys[page]

\* A link on a text of two characters: two selections were made, and the run
\* has returned.
C34_Witness ==
  \E r \in Runs :
    /\ run[r].tool = "insert_link" /\ Done(r) /\ run[r].outcomes[1].ok
    /\ Len(run[r].params.text) = 2
    /\ Cardinality(Did(r, "keyboard.press", "ArrowLeft")) = 2
    /\ Did(r, "keyboard.press", "k") # {}

(* ----------------------- C35: typing the list -------------------------- *)

\* What create_list types and presses for the given items: each item, an
\* Enter between an item and the next, and two Enters at the end.
ListSteps(items) ==
  LET n == Len(items) IN
  [k \in 1..(IF n = 0 THEN 0 ELSE 2 * n - 1) |->
     IF k % 2 = 1 THEN <<"frame.type", items[(k + 1) \div 2]>>
     ELSE <<"keyboard.press", "Enter">>]
    \o << <<"keyboard.press", "Enter">>, <<"keyboard.press", "Enter">> >>

\* The typing and key presses of run r, in the order they were issued.
TypedAndPressed(r) ==
  LET sel == SelectSeq(run[r].log,
                       LAMBDA e : e.op \in {"frame.type", "keyboard.press"})
  IN [k \in 1..Len(sel) |-> <<sel[k].op, sel[k].arg>>]

\* C35: a create_list run that returned its payload for n items has typed the
\* items in the given order with one Enter between consecutive items, none
\* after the last, and then pressed Enter twice (for no item, the two Enters
\* alone), each call with success, and reports itemCount = n.
C35_ListTyped ==
  \A r \in Runs :
    (run[r].tool = "create_list" /\ Done(r) /\ run[r].outcomes[1].ok)
      => /\ TypedAndPressed(r) = ListSteps(run[r].params.items)
         /\ \A k \in Indexes(r) : run[r].log[k].ok
         /\ run[r].outcomes[1].payload.itemCount = Len(run[r].params.items)

====
